---- MODULE Spec2Model ----
(***************************************************************************)
(* Leader election with heartbeat monitoring over a Redis lock store       *)
(* (redis_distributed_locking/docker).  Worker processes on distinct hosts *)
(* run the /execute handler of server.py; every Redis round trip is one    *)
(* atomic step, so the handlers and the heartbeat thread interleave at     *)
(* the granularity of store operations.  Time is discrete (one tick = one  *)
(* second): keys carry their remaining TTL and sleeping threads carry the  *)
(* remaining sleep.                                                        *)
(***************************************************************************)
EXTENDS Naturals, Integers, Sequences, FiniteSets, TLC

VARIABLES
    redis,            \* the Redis keyspace: key -> [val, ttl]
    workers,          \* the processes deployed in this run
    pc,               \* position of each process's main thread in execute()
    role,             \* outcome of i_am_leader() in the current invocation
    current_leader,   \* local current_leader of elect_leader / monitor_leader
    heartbeat,        \* local heartbeat of monitor_leader
    acquired,         \* reply of the last acquire_lock (SET NX EX)
    released,         \* reply of the last release_lock script (EVAL)
    taskResult,       \* how application_logic.execute() ended
    cleanups,         \* cleanup() calls completed in the current invocation
    status,           \* HTTP reply of the last finished invocation
    requests,         \* number of /execute requests received so far
    sleepLeft,        \* remaining seconds of the main thread's time.sleep
    stop_event,       \* LeaderElection.stop_event
    heartbeat_thread, \* LeaderElection.heartbeat_thread is set
    hbpc,             \* position of the heartbeat thread in send_heartbeats
    hbSleep,          \* remaining seconds of the heartbeat thread's sleep
    crashed,          \* the process has died (no further steps)
    leaderAge,        \* history: seconds since leader_key was last created
    afterLapse,       \* history: elect_leader began after a crashed leader's key lapsed
    absentFor,        \* history: seconds heartbeat_key has been absent under p's running loop
    afterShutdown,    \* history: elect_leader began after the leader's cleanup() returned
    config,           \* the configuration parameters that are defined
    missing,          \* the required parameters the current invocation found undefined
    storeError,       \* the function of this invocation whose store call raised
    host,             \* the host each worker runs on (socket.gethostname())
    notifyResult,     \* how the last send_message of this invocation ended
    protoRedis,       \* redis_locking.py: the keyspace
    protoPc,          \* redis_locking.py: position of each instance in __main__
    protoSleep,       \* redis_locking.py: remaining seconds of an instance's time.sleep
    coord             \* the keys of coordinators built for arbitrary task ids

vars == <<redis, workers, pc, role, current_leader, heartbeat, acquired,
          released, taskResult, cleanups, status, requests, sleepLeft,
          stop_event, heartbeat_thread, hbpc, hbSleep, crashed, leaderAge, afterLapse,
          absentFor, afterShutdown, config, missing, storeError,
                   host, notifyResult, protoRedis, protoPc, protoSleep, coord>>

(***************************************************************************)
(* Bounds of the model                                                     *)
(***************************************************************************)
MaxRequests == 3
MaxTermAge == 6
MaxHeartbeatAge == 12

(***************************************************************************)
(* Program constants                                                       *)
(***************************************************************************)
LockTTL == 120
HeartbeatTTL == 5
HeartbeatSleep == 3
PollInterval == 2
GraceSleep == 2

Procs == {"p1", "p2", "p3"}
HostName == [p1 |-> "hostA", p2 |-> "hostB", p3 |-> "hostC"]
TaskId == "Api"
None == "None"

\* LeaderElection.__init__: the keys and the identity derived from the task id
leader_key == TaskId \o "_leader"
heartbeat_key == "heartbeat:" \o leader_key
instance_id(p) == host[p]
unique_id(p) == TaskId \o "_" \o instance_id(p)

Keys == {leader_key, heartbeat_key}
Absent == [val |-> None, ttl |-> 0]

\* redis_locking.py: LEADER_KEY, LOCK_KEY and the HEARTBEAT_KEY of each instance
ProtoHeartbeatKey(p) == "heartbeat:" \o HostName[p]
ProtoKeys == {"leader", "program_lock"} \cup {ProtoHeartbeatKey(p) : p \in Procs}

\* the coordinators built for arbitrary task ids, and one not yet built
Slots == {1, 2}
Unbuilt == [task |-> None, leader_key |-> None, heartbeat_key |-> None]

(***************************************************************************)
(* RedisManager: the lock store client                                     *)
(***************************************************************************)
\* redis_client.get(key)
GetValue(db, key) == db[key].val

\* SET without NX: the key is overwritten
AcquireLockOverwrite(db, key, value, t) ==
    [db EXCEPT ![key] = [val |-> value, ttl |-> t]]

\* SET NX that renews the expiry of an existing key
AcquireLockRefresh(db, key, value, t) ==
    IF db[key].val = None
    THEN [db EXCEPT ![key] = [val |-> value, ttl |-> t]]
    ELSE [db EXCEPT ![key].ttl = t]

\* redis_client.set(key, value, nx=True, ex=ttl): the keyspace afterwards
AcquireLock(db, key, value, t) ==
    IF db[key].val = None
    THEN [db EXCEPT ![key] = [val |-> value, ttl |-> t]]
    ELSE db

\* the reply of SET NX EX: True when the key was created, None otherwise
AcquireReply(db, key) == IF db[key].val = None THEN "True" ELSE None

\* DEL without the comparison
ReleaseLockUnconditional(db, key, value) == [db EXCEPT ![key] = Absent]

\* the Lua script: GET == ARGV[1] ? DEL : 0, run atomically by EVAL
ReleaseLock(db, key, value) ==
    IF db[key].val = value
    THEN [db EXCEPT ![key] = Absent]
    ELSE db

\* the script's reply: what DEL returned, or 0
ReleaseReply(db, key, value) == IF db[key].val = value THEN 1 ELSE 0

\* a SET that is lost: the keyspace stays as it is
SetValueDropped(db, key, value, t) == db

\* a SET that also renews the TTL of leader_key
SetValueRenewsLock(db, key, value, t) ==
    [db EXCEPT ![key] = [val |-> value, ttl |-> t],
               ![leader_key] = IF @.val = None THEN @ ELSE [@ EXCEPT !.ttl = LockTTL]]

\* redis_client.set(key, value, ex=ttl)
SetValue(db, key, value, t) == [db EXCEPT ![key] = [val |-> value, ttl |-> t]]

\* redis_client.delete(key)
Delete(db, key) == [db EXCEPT ![key] = Absent]

\* Redis expiry: one second passes for every key
Expire(db) ==
    [k \in Keys |->
        IF db[k].val = None THEN Absent
        ELSE IF db[k].ttl <= 1 THEN Absent
        ELSE [db[k] EXCEPT !.ttl = db[k].ttl - 1]]

(***************************************************************************)
(* Configuration managers                                                  *)
(***************************************************************************)
\* the parameters read by the docker handler and by the aws handler
LocalRequired == {"APP_CONFIG_REDIS_ENDPOINT"}
SSMRequired == {"/app/config/sns_topic_arn", "/app/config/redis_endpoint"}
Params == LocalRequired \cup SSMRequired

\* LocalConfigManager.get_parameter: raises when os.getenv gives nothing
LocalGetParameter(cfg, name) == IF name \in cfg THEN "value" ELSE "raise"

\* SSMConfigManager.get_parameter: the exception of the lookup is logged and
\* swallowed, the method then returns None
SSMGetParameter(cfg, name) == IF name \in cfg THEN "value" ELSE None

(***************************************************************************)
(* Initial state                                                           *)
(***************************************************************************)
NoStatus == [code |-> 0, status |-> "none", body |-> "none"]

InitProcs ==
    /\ redis = [k \in Keys |-> Absent]
    /\ pc = [p \in Procs |-> "idle"]
    /\ role = [p \in Procs |-> "undecided"]
    /\ current_leader = [p \in Procs |-> None]
    /\ heartbeat = [p \in Procs |-> None]
    /\ acquired = [p \in Procs |-> "none"]
    /\ released = [p \in Procs |-> -1]
    /\ taskResult = [p \in Procs |-> "none"]
    /\ cleanups = [p \in Procs |-> 0]
    /\ status = [p \in Procs |-> NoStatus]
    /\ requests = 0
    /\ sleepLeft = [p \in Procs |-> 0]
    /\ stop_event = [p \in Procs |-> FALSE]
    /\ heartbeat_thread = [p \in Procs |-> FALSE]
    /\ hbpc = [p \in Procs |-> "none"]
    /\ hbSleep = [p \in Procs |-> 0]
    /\ crashed = [p \in Procs |-> FALSE]
    /\ leaderAge = 0
    /\ afterLapse = [p \in Procs |-> FALSE]
    /\ absentFor = [p \in Procs |-> -1]
    /\ afterShutdown = [p \in Procs |-> "no"]
    /\ missing = [p \in Procs |-> {}]
    /\ storeError = [p \in Procs |-> "none"]
    /\ notifyResult = [p \in Procs |-> "none"]
    /\ protoRedis = [k \in ProtoKeys |-> Absent]
    /\ protoPc = [p \in Procs |-> "start"]
    /\ protoSleep = [p \in Procs |-> 0]
    /\ coord = [i \in Slots |-> Unbuilt]

\* every parameter is defined: the .env file and the parameter store are complete
Init == InitProcs /\ workers = {"p1", "p2"} /\ config = Params /\ host = HostName

(***************************************************************************)
(* server.py execute(): the main thread of one worker                      *)
(***************************************************************************)
Alive(p) == p \in workers /\ ~crashed[p]

\* the processes that died after creating leader_key and before cleanup()
CrashedLeader == {p \in Procs : crashed[p] /\ acquired[p] = "True"}

\* the leaders, other than p, whose cleanup() has returned and who have not
\* been invoked again
ShutDownLeader(p) ==
    {a \in Procs \ {p} : Alive(a) /\ role[a] = "leader" /\ cleanups[a] >= 1}

\* jsonify replies of execute()
ReplySuccess(p) ==
    [code |-> 200, status |-> "success",
     body |-> IF role[p] = "leader" THEN "leader completed" ELSE "follower completed"]
ReplyTaskError == [code |-> 500, status |-> "error", body |-> "task error"]
ReplyError(msg) == [code |-> 500, status |-> "error", body |-> msg]

\* a new invocation of execute(): the locals of the handler and a fresh
\* LeaderElection object
NewInvocation(p) ==
    /\ requests' = requests + 1
    /\ role' = [role EXCEPT ![p] = "undecided"]
    /\ current_leader' = [current_leader EXCEPT ![p] = None]
    /\ heartbeat' = [heartbeat EXCEPT ![p] = None]
    /\ acquired' = [acquired EXCEPT ![p] = "none"]
    /\ released' = [released EXCEPT ![p] = -1]
    /\ taskResult' = [taskResult EXCEPT ![p] = "none"]
    /\ cleanups' = [cleanups EXCEPT ![p] = 0]
    /\ stop_event' = [stop_event EXCEPT ![p] = FALSE]
    /\ heartbeat_thread' = [heartbeat_thread EXCEPT ![p] = FALSE]
    /\ hbpc' = [hbpc EXCEPT ![p] = "none"]
    /\ afterLapse' = [afterLapse EXCEPT ![p] = FALSE]
    /\ absentFor' = [absentFor EXCEPT ![p] = -1]
    /\ storeError' = [storeError EXCEPT ![p] = "none"]
    /\ notifyResult' = [notifyResult EXCEPT ![p] = "none"]
    /\ afterShutdown' = [afterShutdown EXCEPT ![p] =
                            IF role[p] = "follower" /\ status[p].code = 200
                            THEN "was_follower" ELSE "no"]

\* a POST /execute arrives: LeaderElection("Api", config_manager) is built.
\* Its constructor reads the Redis endpoint; get_parameter raises when the
\* parameter is undefined and the except of line 50 answers 500.
Invoke(p) ==
    /\ Alive(p)
    /\ pc[p] = "idle"
    /\ requests < MaxRequests
    /\ NewInvocation(p)
    /\ missing' = [missing EXCEPT ![p] = LocalRequired \ config]
    /\ IF LocalGetParameter(config, "APP_CONFIG_REDIS_ENDPOINT") = "raise"
       THEN /\ pc' = [pc EXCEPT ![p] = "idle"]
            /\ status' = [status EXCEPT ![p] = ReplyError("Configuration parameter not found")]
       ELSE /\ pc' = [pc EXCEPT ![p] = "elect_leader"]
            /\ status' = [status EXCEPT ![p] = NoStatus]
    /\ UNCHANGED <<redis, workers, sleepLeft, hbSleep, crashed, leaderAge, config,
                   host, protoRedis, protoPc, protoSleep, coord>>

\* elect_leader(): current_leader = get_value(leader_key)
ElectLeaderGet(p) ==
    /\ Alive(p)
    /\ pc[p] = "elect_leader"
    /\ current_leader' = [current_leader EXCEPT ![p] = GetValue(redis, leader_key)]
    /\ pc' = [pc EXCEPT ![p] =
                IF GetValue(redis, leader_key) = None THEN "acquire_leader"
                ELSE "i_am_leader"]
    /\ afterLapse' = [afterLapse EXCEPT ![p] =
                        GetValue(redis, leader_key) = None /\ CrashedLeader # {}]
    /\ afterShutdown' = [afterShutdown EXCEPT ![p] =
                            IF @ = "was_follower" /\ ShutDownLeader(p) # {}
                            THEN "yes" ELSE "no"]
    /\ UNCHANGED <<redis, workers, role, heartbeat, acquired, released, taskResult,
                   cleanups, status, requests, sleepLeft, stop_event,
                   heartbeat_thread, hbpc, hbSleep, crashed, leaderAge,
                   absentFor, config, missing, storeError,
                   host, notifyResult, protoRedis, protoPc, protoSleep, coord>>

\* acquire_leader(): acquire_lock(leader_key, unique_id, 120)
AcquireLeader(p) ==
    /\ Alive(p)
    /\ pc[p] = "acquire_leader"
    /\ redis' = AcquireLock(redis, leader_key, unique_id(p), LockTTL)
    /\ acquired' = [acquired EXCEPT ![p] = AcquireReply(redis, leader_key)]
    /\ leaderAge' = IF AcquireReply(redis, leader_key) = "True" THEN 0 ELSE leaderAge
    /\ pc' = [pc EXCEPT ![p] = "i_am_leader"]
    /\ UNCHANGED <<workers, role, current_leader, heartbeat, released, taskResult,
                   cleanups, status, requests, sleepLeft, stop_event,
                   heartbeat_thread, hbpc, hbSleep, crashed, afterLapse,
                   absentFor, afterShutdown, config, missing, storeError,
                   host, notifyResult, protoRedis, protoPc, protoSleep, coord>>

\* i_am_leader(): get_value(leader_key).decode() == unique_id.
\* "raise" when the key is absent: None has no decode().
IAmLeaderResult(db, p) ==
    IF GetValue(db, leader_key) = None THEN "raise"
    ELSE IF GetValue(db, leader_key) = unique_id(p) THEN "leader"
    ELSE "follower"

\* the if of server.py:23; an AttributeError reaches the except of line 50
IAmLeader(p) ==
    /\ Alive(p)
    /\ pc[p] = "i_am_leader"
    /\ LET r == IAmLeaderResult(redis, p) IN
        /\ role' = [role EXCEPT ![p] = r]
        /\ pc' = [pc EXCEPT ![p] =
                    CASE r = "leader" -> "start_heartbeat"
                      [] r = "follower" -> "monitor_leader"
                      [] OTHER -> "idle"]
        /\ status' = [status EXCEPT ![p] =
                        IF r = "raise" THEN ReplyError("AttributeError") ELSE @]
    /\ UNCHANGED <<redis, workers, current_leader, heartbeat, acquired, released,
                   taskResult, cleanups, requests, sleepLeft, stop_event,
                   heartbeat_thread, hbpc, hbSleep, crashed, leaderAge, afterLapse,
                   absentFor, afterShutdown, config, missing, storeError,
                   host, notifyResult, protoRedis, protoPc, protoSleep, coord>>

\* start_heartbeat_thread(): the thread is created and started
StartHeartbeatThread(p) ==
    /\ Alive(p)
    /\ pc[p] = "start_heartbeat"
    /\ heartbeat_thread' = [heartbeat_thread EXCEPT ![p] = TRUE]
    /\ hbpc' = [hbpc EXCEPT ![p] = "loop"]
    /\ pc' = [pc EXCEPT ![p] = "task"]
    /\ UNCHANGED <<redis, workers, role, current_leader, heartbeat, acquired,
                   released, taskResult, cleanups, status, requests, sleepLeft,
                   stop_event, hbSleep, crashed, leaderAge, afterLapse,
                   absentFor, afterShutdown, config, missing, storeError,
                   host, notifyResult, protoRedis, protoPc, protoSleep, coord>>

\* application_logic.execute() returns: the finally block calls cleanup()
TaskReturn(p) ==
    /\ Alive(p)
    /\ pc[p] = "task"
    /\ taskResult' = [taskResult EXCEPT ![p] = "ok"]
    /\ pc' = [pc EXCEPT ![p] = "cleanup_release"]
    /\ UNCHANGED <<redis, workers, role, current_leader, heartbeat, acquired,
                   released, cleanups, status, requests, sleepLeft, stop_event,
                   heartbeat_thread, hbpc, hbSleep, crashed, leaderAge, afterLapse,
                   absentFor, afterShutdown, config, missing, storeError,
                   host, notifyResult, protoRedis, protoPc, protoSleep, coord>>

\* a raise that answers 500 at once, without the finally block
TaskRaiseNoFinally(p) ==
    /\ Alive(p)
    /\ pc[p] = "task"
    /\ taskResult' = [taskResult EXCEPT ![p] = "raised"]
    /\ pc' = [pc EXCEPT ![p] = "idle"]
    /\ status' = [status EXCEPT ![p] = ReplyTaskError]
    /\ UNCHANGED <<redis, workers, role, current_leader, heartbeat, acquired,
                   released, cleanups, requests, sleepLeft, stop_event,
                   heartbeat_thread, hbpc, hbSleep, crashed, leaderAge, afterLapse,
                   absentFor, afterShutdown, config, missing, storeError,
                   host, notifyResult, protoRedis, protoPc, protoSleep, coord>>

\* application_logic.execute() raises: except of line 30, then the finally block
TaskRaise(p) ==
    /\ Alive(p)
    /\ pc[p] = "task"
    /\ taskResult' = [taskResult EXCEPT ![p] = "raised"]
    /\ pc' = [pc EXCEPT ![p] = "cleanup_release"]
    /\ UNCHANGED <<redis, workers, role, current_leader, heartbeat, acquired,
                   released, cleanups, status, requests, sleepLeft, stop_event,
                   heartbeat_thread, hbpc, hbSleep, crashed, leaderAge, afterLapse,
                   absentFor, afterShutdown, config, missing, storeError,
                   host, notifyResult, protoRedis, protoPc, protoSleep, coord>>

(***************************************************************************)
(* LeaderElection.cleanup()                                                *)
(***************************************************************************)
\* cleanup() begins (finally of line 38, or line 45) with
\* release_lock(leader_key, unique_id)
CleanupRelease(p) ==
    /\ Alive(p)
    /\ pc[p] = "cleanup_release"
    /\ redis' = ReleaseLock(redis, leader_key, unique_id(p))
    /\ released' = [released EXCEPT ![p] = ReleaseReply(redis, leader_key, unique_id(p))]
    /\ leaderAge' = IF redis'[leader_key].val = None THEN 0 ELSE leaderAge
    /\ pc' = [pc EXCEPT ![p] = "cleanup_get_heartbeat"]
    /\ UNCHANGED <<workers, role, current_leader, heartbeat, acquired, taskResult,
                   cleanups, status, requests, sleepLeft, stop_event,
                   heartbeat_thread, hbpc, hbSleep, crashed, afterLapse,
                   absentFor, afterShutdown, config, missing, storeError,
                   host, notifyResult, protoRedis, protoPc, protoSleep, coord>>

\* if get_value(heartbeat_key):
CleanupGetHeartbeat(p) ==
    /\ Alive(p)
    /\ pc[p] = "cleanup_get_heartbeat"
    /\ pc' = [pc EXCEPT ![p] =
                IF GetValue(redis, heartbeat_key) # None THEN "cleanup_delete_heartbeat"
                ELSE "cleanup_get_leader"]
    /\ UNCHANGED <<redis, workers, role, current_leader, heartbeat, acquired,
                   released, taskResult, cleanups, status, requests, sleepLeft,
                   stop_event, heartbeat_thread, hbpc, hbSleep, crashed, leaderAge, afterLapse,
                   absentFor, afterShutdown, config, missing, storeError,
                   host, notifyResult, protoRedis, protoPc, protoSleep, coord>>

\*     delete(heartbeat_key)
CleanupDeleteHeartbeat(p) ==
    /\ Alive(p)
    /\ pc[p] = "cleanup_delete_heartbeat"
    /\ redis' = Delete(redis, heartbeat_key)
    /\ pc' = [pc EXCEPT ![p] = "cleanup_get_leader"]
    /\ UNCHANGED <<workers, role, current_leader, heartbeat, acquired, released,
                   taskResult, cleanups, status, requests, sleepLeft, stop_event,
                   heartbeat_thread, hbpc, hbSleep, crashed, leaderAge, afterLapse,
                   absentFor, afterShutdown, config, missing, storeError,
                   host, notifyResult, protoRedis, protoPc, protoSleep, coord>>

\* if get_value(leader_key):
CleanupGetLeader(p) ==
    /\ Alive(p)
    /\ pc[p] = "cleanup_get_leader"
    /\ pc' = [pc EXCEPT ![p] =
                IF GetValue(redis, leader_key) # None THEN "cleanup_delete_leader"
                ELSE "stop_heartbeat"]
    /\ UNCHANGED <<redis, workers, role, current_leader, heartbeat, acquired,
                   released, taskResult, cleanups, status, requests, sleepLeft,
                   stop_event, heartbeat_thread, hbpc, hbSleep, crashed, leaderAge, afterLapse,
                   absentFor, afterShutdown, config, missing, storeError,
                   host, notifyResult, protoRedis, protoPc, protoSleep, coord>>

\*     delete(leader_key)
CleanupDeleteLeader(p) ==
    /\ Alive(p)
    /\ pc[p] = "cleanup_delete_leader"
    /\ redis' = Delete(redis, leader_key)
    /\ leaderAge' = IF redis'[leader_key].val = None THEN 0 ELSE leaderAge
    /\ pc' = [pc EXCEPT ![p] = "stop_heartbeat"]
    /\ UNCHANGED <<workers, role, current_leader, heartbeat, acquired, released,
                   taskResult, cleanups, status, requests, sleepLeft, stop_event,
                   heartbeat_thread, hbpc, hbSleep, crashed, afterLapse,
                   absentFor, afterShutdown, config, missing, storeError,
                   host, notifyResult, protoRedis, protoPc, protoSleep, coord>>

\* where execute() goes on when a cleanup() call returns: the finally block of a
\* failed task returns the 500 of line 33; the finally block of a successful task
\* falls through to the cleanup() of line 45; the cleanup() of line 45 is
\* followed by the 200 of line 46
CleanupReturns(p) ==
    /\ cleanups' = [cleanups EXCEPT ![p] = @ + 1]
    /\ IF role[p] = "leader" /\ cleanups[p] = 0
       THEN IF taskResult[p] = "raised"
            THEN /\ pc' = [pc EXCEPT ![p] = "idle"]
                 /\ status' = [status EXCEPT ![p] = ReplyTaskError]
            ELSE /\ pc' = [pc EXCEPT ![p] = "cleanup_release"]
                 /\ UNCHANGED status
       ELSE /\ pc' = [pc EXCEPT ![p] = "idle"]
            /\ status' = [status EXCEPT ![p] = ReplySuccess(p)]

\* stop_heartbeat_thread(): without a thread there is nothing to stop and
\* cleanup() returns; with one, stop_event.set()
StopHeartbeatThread(p) ==
    /\ Alive(p)
    /\ pc[p] = "stop_heartbeat"
    /\ IF heartbeat_thread[p]
       THEN /\ stop_event' = [stop_event EXCEPT ![p] = TRUE]
            /\ pc' = [pc EXCEPT ![p] = "join_heartbeat"]
            /\ UNCHANGED <<cleanups, status>>
       ELSE /\ CleanupReturns(p)
            /\ UNCHANGED stop_event
    /\ UNCHANGED <<redis, workers, role, current_leader, heartbeat, acquired,
                   released, taskResult, requests, sleepLeft,
                   heartbeat_thread, hbpc, hbSleep, crashed, leaderAge, afterLapse,
                   absentFor, afterShutdown, config, missing, storeError,
                   host, notifyResult, protoRedis, protoPc, protoSleep, coord>>

\* a join that does not wait for the thread
JoinNoWait(p) ==
    /\ Alive(p)
    /\ pc[p] = "join_heartbeat"
    /\ CleanupReturns(p)
    /\ UNCHANGED <<redis, workers, role, current_leader, heartbeat, acquired,
                   released, taskResult, requests, sleepLeft, stop_event,
                   heartbeat_thread, hbpc, hbSleep, crashed, leaderAge, afterLapse,
                   absentFor, afterShutdown, config, missing, storeError,
                   host, notifyResult, protoRedis, protoPc, protoSleep, coord>>

\* heartbeat_thread.join() returns once the thread has exited
JoinHeartbeatThread(p) ==
    /\ Alive(p)
    /\ pc[p] = "join_heartbeat"
    /\ hbpc[p] = "exited"
    /\ CleanupReturns(p)
    /\ UNCHANGED <<redis, workers, role, current_leader, heartbeat, acquired,
                   released, taskResult, requests, sleepLeft, stop_event,
                   heartbeat_thread, hbpc, hbSleep, crashed, leaderAge, afterLapse,
                   absentFor, afterShutdown, config, missing, storeError,
                   host, notifyResult, protoRedis, protoPc, protoSleep, coord>>

(***************************************************************************)
(* LeaderElection.monitor_leader() and the follower branch of execute()    *)
(***************************************************************************)
\* a loop that watches leader_key alone
MonitorWaitsLeaderOnly(cur, hb) == cur # None

\* the loop condition of monitor_leader (line 85)
MonitorWaits(cur, hb) == cur # None /\ hb # None /\ hb = "alive"

\* current_leader = get_value(leader_key)
MonitorGetLeader(p) ==
    /\ Alive(p)
    /\ pc[p] = "monitor_leader"
    /\ current_leader' = [current_leader EXCEPT ![p] = GetValue(redis, leader_key)]
    /\ pc' = [pc EXCEPT ![p] = "monitor_get_heartbeat"]
    /\ UNCHANGED <<redis, workers, role, heartbeat, acquired, released, taskResult,
                   cleanups, status, requests, sleepLeft, stop_event,
                   heartbeat_thread, hbpc, hbSleep, crashed, leaderAge, afterLapse,
                   absentFor, afterShutdown, config, missing, storeError,
                   host, notifyResult, protoRedis, protoPc, protoSleep, coord>>

\* a follower that runs the task itself when it finds the leader gone
MonitorNextTakeover(p, hb) ==
    IF MonitorWaits(current_leader[p], hb)
    THEN /\ pc' = [pc EXCEPT ![p] = "monitor_sleep"]
         /\ sleepLeft' = [sleepLeft EXCEPT ![p] = PollInterval]
    ELSE /\ pc' = [pc EXCEPT ![p] =
                    IF GetValue(redis, leader_key) = None THEN "task" ELSE "grace_sleep"]
         /\ sleepLeft' = [sleepLeft EXCEPT ![p] = GraceSleep]

\* where monitor_leader goes after reading the heartbeat: another
\* time.sleep(2) while the loop condition holds; otherwise it returns and
\* execute() sleeps 2 s (line 44)
MonitorNext(p, hb) ==
    IF MonitorWaits(current_leader[p], hb)
    THEN /\ pc' = [pc EXCEPT ![p] = "monitor_sleep"]
         /\ sleepLeft' = [sleepLeft EXCEPT ![p] = PollInterval]
    ELSE /\ pc' = [pc EXCEPT ![p] = "grace_sleep"]
         /\ sleepLeft' = [sleepLeft EXCEPT ![p] = GraceSleep]

\* heartbeat = get_value(heartbeat_key) before the loop (line 84)
MonitorGetHeartbeat(p) ==
    /\ Alive(p)
    /\ pc[p] = "monitor_get_heartbeat"
    /\ heartbeat' = [heartbeat EXCEPT ![p] = GetValue(redis, heartbeat_key)]
    /\ MonitorNext(p, GetValue(redis, heartbeat_key))
    /\ UNCHANGED <<redis, workers, role, current_leader, acquired, released,
                   taskResult, cleanups, status, requests, stop_event,
                   heartbeat_thread, hbpc, hbSleep, crashed, leaderAge, afterLapse,
                   absentFor, afterShutdown, config, missing, storeError,
                   host, notifyResult, protoRedis, protoPc, protoSleep, coord>>

\* time.sleep(2) of the loop is over: heartbeat = get_value(heartbeat_key)
\* (line 89), the only key the loop reads again
MonitorPoll(p) ==
    /\ Alive(p)
    /\ pc[p] = "monitor_sleep"
    /\ sleepLeft[p] = 0
    /\ heartbeat' = [heartbeat EXCEPT ![p] = GetValue(redis, heartbeat_key)]
    /\ MonitorNext(p, GetValue(redis, heartbeat_key))
    /\ UNCHANGED <<redis, workers, role, current_leader, acquired, released,
                   taskResult, cleanups, status, requests, stop_event,
                   heartbeat_thread, hbpc, hbSleep, crashed, leaderAge, afterLapse,
                   absentFor, afterShutdown, config, missing, storeError,
                   host, notifyResult, protoRedis, protoPc, protoSleep, coord>>

\* time.sleep(2) of line 44 is over: cleanup() of line 45
GraceSleepDone(p) ==
    /\ Alive(p)
    /\ pc[p] = "grace_sleep"
    /\ sleepLeft[p] = 0
    /\ pc' = [pc EXCEPT ![p] = "cleanup_release"]
    /\ UNCHANGED <<redis, workers, role, current_leader, heartbeat, acquired,
                   released, taskResult, cleanups, status, requests, sleepLeft,
                   stop_event, heartbeat_thread, hbpc, hbSleep, crashed, leaderAge, afterLapse,
                   absentFor, afterShutdown, config, missing, storeError,
                   host, notifyResult, protoRedis, protoPc, protoSleep, coord>>

(***************************************************************************)
(* LeaderElection.send_heartbeats(): the heartbeat thread                  *)
(***************************************************************************)
\* a loop that never looks at stop_event
HbCheckStopIgnored(p) ==
    /\ Alive(p)
    /\ hbpc[p] = "loop"
    /\ hbpc' = [hbpc EXCEPT ![p] = "get_leader"]
    /\ UNCHANGED <<redis, workers, pc, role, current_leader, heartbeat, acquired,
                   released, taskResult, cleanups, status, requests, sleepLeft,
                   stop_event, heartbeat_thread, hbSleep, crashed, leaderAge, afterLapse,
                   absentFor, afterShutdown, config, missing, storeError,
                   host, notifyResult, protoRedis, protoPc, protoSleep, coord>>

\* while not stop_event.is_set():
HbCheckStop(p) ==
    /\ Alive(p)
    /\ hbpc[p] = "loop"
    /\ hbpc' = [hbpc EXCEPT ![p] = IF stop_event[p] THEN "exited" ELSE "get_leader"]
    /\ UNCHANGED <<redis, workers, pc, role, current_leader, heartbeat, acquired,
                   released, taskResult, cleanups, status, requests, sleepLeft,
                   stop_event, heartbeat_thread, hbSleep, crashed, leaderAge, afterLapse,
                   absentFor, afterShutdown, config, missing, storeError,
                   host, notifyResult, protoRedis, protoPc, protoSleep, coord>>

\* a guard that lets the loop go on under any leader
StillLeaderAny(cur, p) == cur # None

\* the guard of the heartbeat write (line 45)
StillLeader(cur, p) == cur # None /\ cur = unique_id(p)

\* current_leader = get_value(leader_key); break unless it is this process
HbGetLeader(p) ==
    /\ Alive(p)
    /\ hbpc[p] = "get_leader"
    /\ hbpc' = [hbpc EXCEPT ![p] =
                  IF StillLeader(GetValue(redis, leader_key), p) THEN "set_heartbeat"
                  ELSE "exited"]
    /\ UNCHANGED <<redis, workers, pc, role, current_leader, heartbeat, acquired,
                   released, taskResult, cleanups, status, requests, sleepLeft,
                   stop_event, heartbeat_thread, hbSleep, crashed, leaderAge, afterLapse,
                   absentFor, afterShutdown, config, missing, storeError,
                   host, notifyResult, protoRedis, protoPc, protoSleep, coord>>

\* set_value(heartbeat_key, "alive", 5); time.sleep(3) begins
HbSetValue(p) ==
    /\ Alive(p)
    /\ hbpc[p] = "set_heartbeat"
    /\ redis' = SetValue(redis, heartbeat_key, "alive", HeartbeatTTL)
    /\ hbSleep' = [hbSleep EXCEPT ![p] = HeartbeatSleep]
    /\ hbpc' = [hbpc EXCEPT ![p] = "sleep"]
    /\ absentFor' = [absentFor EXCEPT ![p] =
                        IF GetValue(redis', heartbeat_key) # None \/ @ < 0 THEN 0 ELSE @]
    /\ UNCHANGED <<workers, pc, role, current_leader, heartbeat, acquired,
                   released, taskResult, cleanups, status, requests, sleepLeft,
                   stop_event, heartbeat_thread, crashed, leaderAge, afterLapse,
                   afterShutdown, config, missing, storeError,
                   host, notifyResult, protoRedis, protoPc, protoSleep, coord>>

\* a loop that goes from its sleep straight to the next write
HbSleepDoneNoCheck(p) ==
    /\ Alive(p)
    /\ hbpc[p] = "sleep"
    /\ hbSleep[p] = 0
    /\ hbpc' = [hbpc EXCEPT ![p] = "set_heartbeat"]
    /\ UNCHANGED <<redis, workers, pc, role, current_leader, heartbeat, acquired,
                   released, taskResult, cleanups, status, requests, sleepLeft,
                   stop_event, heartbeat_thread, hbSleep, crashed, leaderAge, afterLapse,
                   absentFor, afterShutdown, config, missing, storeError,
                   host, notifyResult, protoRedis, protoPc, protoSleep, coord>>

\* time.sleep(3) is over: back to the loop condition
HbSleepDone(p) ==
    /\ Alive(p)
    /\ hbpc[p] = "sleep"
    /\ hbSleep[p] = 0
    /\ hbpc' = [hbpc EXCEPT ![p] = "loop"]
    /\ UNCHANGED <<redis, workers, pc, role, current_leader, heartbeat, acquired,
                   released, taskResult, cleanups, status, requests, sleepLeft,
                   stop_event, heartbeat_thread, hbSleep, crashed, leaderAge, afterLapse,
                   absentFor, afterShutdown, config, missing, storeError,
                   host, notifyResult, protoRedis, protoPc, protoSleep, coord>>

(***************************************************************************)
(* Time                                                                    *)
(***************************************************************************)
Dec(n) == IF n > 0 THEN n - 1 ELSE 0

\* the seconds leader_key has existed, from its remaining TTL
TermAge(db) == IF db[leader_key].val = None THEN 0 ELSE LockTTL - db[leader_key].ttl

\* leader_key is held by a process that has died
OwnerCrashed(db) == \E p \in CrashedLeader : db[leader_key].val = unique_id(p)

\* p's send_heartbeats loop is running: the thread is alive, stop has not
\* been requested and leader_key still holds p's id
LoopRunning(p) ==
    /\ Alive(p)
    /\ hbpc[p] \in {"loop", "get_leader", "set_heartbeat", "sleep"}
    /\ ~stop_event[p]
    /\ GetValue(redis, leader_key) = unique_id(p)

\* the longest absence of heartbeat_key the heartbeat contract allows
MaxAbsence == HeartbeatTTL + HeartbeatSleep

\* one second passes: TTLs and running sleeps count down
Elapse ==
    /\ redis' = Expire(redis)
    /\ absentFor' = [p \in Procs |->
                        IF ~LoopRunning(p) \/ absentFor[p] < 0 THEN -1
                        ELSE IF Expire(redis)[heartbeat_key].val # None THEN 0
                        ELSE IF absentFor[p] <= MaxAbsence THEN absentFor[p] + 1
                        ELSE absentFor[p]]
    /\ sleepLeft' = [p \in Procs |-> Dec(sleepLeft[p])]
    /\ hbSleep' = [p \in Procs |-> Dec(hbSleep[p])]
    /\ leaderAge' = IF redis[leader_key].val = None THEN 0
                    ELSE IF leaderAge < LockTTL THEN leaderAge + 1 ELSE leaderAge
    /\ UNCHANGED <<workers, pc, role, current_leader, heartbeat, acquired,
                   released, taskResult, cleanups, status, requests,
                   stop_event, heartbeat_thread, hbpc, crashed, afterLapse,
                   afterShutdown, config, missing, storeError,
                   host, notifyResult, protoRedis, protoPc, protoSleep, coord>>

\* A term of leadership is followed for MaxTermAge seconds, and to the end of
\* the key's TTL when the process that created the key has died.
Tick ==
    /\ \/ TermAge(redis) < MaxTermAge
       \/ OwnerCrashed(redis)
    /\ Elapse

\* a leader dies after acquire_lock created leader_key and before cleanup():
\* its main thread and its heartbeat thread stop for good
Crash(p) ==
    /\ Alive(p)
    /\ acquired[p] = "True"
    /\ GetValue(redis, leader_key) = unique_id(p)
    /\ pc[p] \in {"i_am_leader", "start_heartbeat", "task"}
    /\ \A q \in Procs : ~crashed[q]
    /\ crashed' = [crashed EXCEPT ![p] = TRUE]
    /\ pc' = [pc EXCEPT ![p] = "dead"]
    /\ hbpc' = [hbpc EXCEPT ![p] = IF @ = "none" THEN @ ELSE "dead"]
    /\ hbSleep' = [hbSleep EXCEPT ![p] = 0]
    /\ UNCHANGED <<redis, workers, role, current_leader, heartbeat, acquired,
                   released, taskResult, cleanups, status, requests, sleepLeft,
                   stop_event, heartbeat_thread, leaderAge, afterLapse,
                   absentFor, afterShutdown, config, missing, storeError,
                   host, notifyResult, protoRedis, protoPc, protoSleep, coord>>

(***************************************************************************)
(* Specification: workers on distinct hosts serving /execute requests      *)
(***************************************************************************)
Step(p) ==
    \/ Invoke(p)
    \/ ElectLeaderGet(p)
    \/ AcquireLeader(p)
    \/ IAmLeader(p)
    \/ StartHeartbeatThread(p)
    \/ TaskReturn(p)
    \/ TaskRaise(p)
    \/ CleanupRelease(p)
    \/ CleanupGetHeartbeat(p)
    \/ CleanupDeleteHeartbeat(p)
    \/ CleanupGetLeader(p)
    \/ CleanupDeleteLeader(p)
    \/ StopHeartbeatThread(p)
    \/ JoinHeartbeatThread(p)
    \/ MonitorGetLeader(p)
    \/ MonitorGetHeartbeat(p)
    \/ MonitorPoll(p)
    \/ GraceSleepDone(p)
    \/ HbCheckStop(p)
    \/ HbGetLeader(p)
    \/ HbSetValue(p)
    \/ HbSleepDone(p)

Next == (\E p \in Procs : Step(p)) \/ Tick

Spec == Init /\ [][Next]_vars

(***************************************************************************)
(* Specification: three workers racing through the election                *)
(***************************************************************************)
InitElection == InitProcs /\ workers = Procs /\ config = Params /\ host = HostName

Election(p) ==
    \/ Invoke(p)
    \/ ElectLeaderGet(p)
    \/ AcquireLeader(p)
    \/ IAmLeader(p)

NextElection == (\E p \in Procs : Election(p)) \/ Tick

SpecElection == InitElection /\ [][NextElection]_vars

(***************************************************************************)
(* Specification: three workers, one of which may die                      *)
(***************************************************************************)
\* each worker serves one request: p1 serves the first and is alone until it
\* dies as leader; the requests to p2 and p3 arrive afterwards, in this order
\* (the workers are alike)
Arrived(p) == pc[p] # "idle" \/ status[p] # NoStatus
InOrder(p) ==
    \/ p = "p1"
    \/ p = "p2" /\ CrashedLeader # {}
    \/ p = "p3" /\ Arrived("p2")
FirstRequest(p) ==
    /\ status[p] = NoStatus
    /\ pc[p] = "idle" => InOrder(p)
    /\ Step(p)

\* time runs on once the leader has died
NextCrash ==
    \/ \E p \in Procs : FirstRequest(p)
    \/ \E p \in Procs : Crash(p)
    \/ CrashedLeader # {} /\ Tick

SpecCrash == InitElection /\ [][NextCrash]_vars

(***************************************************************************)
(* Specification: heartbeat threads that run as soon as their sleep ends   *)
(***************************************************************************)
\* no heartbeat thread has a step to take: each is asleep, or has ended
HbPrompt ==
    \A p \in Procs :
        Alive(p) =>
            /\ hbpc[p] \notin {"loop", "get_leader", "set_heartbeat"}
            /\ ~(hbpc[p] = "sleep" /\ hbSleep[p] = 0)

\* one second passes once the heartbeat threads have taken their steps; a
\* term of leadership is followed for MaxHeartbeatAge seconds
TickPrompt ==
    /\ HbPrompt
    /\ TermAge(redis) < MaxHeartbeatAge
    /\ Elapse

NextHeartbeat == (\E p \in Procs : Step(p)) \/ TickPrompt

SpecHeartbeat == Init /\ [][NextHeartbeat]_vars

(***************************************************************************)
(* Specification: the store may fail                                       *)
(***************************************************************************)
\* the function of LeaderElection whose store call the main thread of p is
\* about to make, "none" when it is not about to make one
StoreCall(p) ==
    CASE pc[p] \in {"elect_leader", "acquire_leader"} -> "elect_leader"
      [] pc[p] = "i_am_leader" -> "i_am_leader"
      [] pc[p] \in {"monitor_leader", "monitor_get_heartbeat"} -> "monitor_leader"
      [] pc[p] = "monitor_sleep" /\ sleepLeft[p] = 0 -> "monitor_leader"
      [] pc[p] \in {"cleanup_release", "cleanup_get_heartbeat",
                    "cleanup_delete_heartbeat", "cleanup_get_leader",
                    "cleanup_delete_leader"} -> "cleanup"
      [] OTHER -> "none"

\* a failure that is swallowed: the handler goes on as if it were the leader
StoreFailsAssumeLeader(p) ==
    /\ Alive(p)
    /\ StoreCall(p) # "none"
    /\ hbpc[p] \in {"none", "exited"}
    /\ storeError' = [storeError EXCEPT ![p] = StoreCall(p)]
    /\ role' = [role EXCEPT ![p] = "leader"]
    /\ pc' = [pc EXCEPT ![p] = "start_heartbeat"]
    /\ UNCHANGED <<redis, workers, current_leader, heartbeat, acquired, released,
                   taskResult, cleanups, status, requests, sleepLeft, stop_event,
                   heartbeat_thread, hbpc, hbSleep, crashed, leaderAge, afterLapse,
                   absentFor, afterShutdown, config, missing,
                   host, notifyResult, protoRedis, protoPc, protoSleep, coord>>

\* a store call of the main thread raises (redis.exceptions.ConnectionError):
\* no method of RedisManager or LeaderElection catches it, so it reaches the
\* except of server.py:50, which answers 500.  A leader's heartbeat thread
\* outlives a cleanup() that fails; the failure is followed when that thread
\* has ended or was never started.
StoreFails(p) ==
    /\ Alive(p)
    /\ StoreCall(p) # "none"
    /\ hbpc[p] \in {"none", "exited"}
    /\ storeError' = [storeError EXCEPT ![p] = StoreCall(p)]
    /\ pc' = [pc EXCEPT ![p] = "idle"]
    /\ status' = [status EXCEPT ![p] = ReplyError("ConnectionError")]
    /\ UNCHANGED <<redis, workers, role, current_leader, heartbeat, acquired,
                   released, taskResult, cleanups, requests, sleepLeft, stop_event,
                   heartbeat_thread, hbpc, hbSleep, crashed, leaderAge, afterLapse,
                   absentFor, afterShutdown, config, missing,
                   host, notifyResult, protoRedis, protoPc, protoSleep, coord>>

\* each worker serves one request
SingleRequest(p) == status[p] = NoStatus /\ Step(p)

NextStoreFailure ==
    \/ \E p \in Procs : SingleRequest(p)
    \/ \E p \in Procs : StoreFails(p)
    \/ Tick

SpecStoreFailure == Init /\ [][NextStoreFailure]_vars

(***************************************************************************)
(* Specification: two workers under fair scheduling, the leader may die    *)
(***************************************************************************)
\* a main thread is in a time.sleep that has not ended, or joins a heartbeat
\* thread that is
Sleeping ==
    \E p \in Procs :
        /\ Alive(p)
        /\ \/ sleepLeft[p] > 0
           \/ pc[p] = "join_heartbeat" /\ hbSleep[p] > 0

\* one second passes.  Time is followed from the death of a leader on: for
\* MaxTermAge seconds of the term, and further on for as long as a main
\* thread is waiting for a sleep to end
TickWaited ==
    /\ CrashedLeader # {}
    /\ \/ TermAge(redis) < MaxTermAge
       \/ Sleeping
    /\ Elapse

NextFailure ==
    \/ \E p \in Procs : SingleRequest(p)
    \/ \E p \in Procs : Crash(p)
    \/ TickWaited

\* threads that can run do run, and time passes
SpecFailure ==
    /\ Init
    /\ [][NextFailure]_vars
    /\ \A p \in Procs : WF_vars(SingleRequest(p))
    /\ WF_vars(TickWaited)

(***************************************************************************)
(* Specification: one request per worker, every thread keeps running       *)
(***************************************************************************)
\* one second passes while a main thread is waiting for a sleep to end, its
\* own or, in join(), the heartbeat thread's
TickSleeping == Sleeping /\ Tick

NextCleanup ==
    \/ \E p \in Procs : SingleRequest(p)
    \/ TickSleeping

\* the store answers every call; threads that can run do run, and time passes
SpecCleanup ==
    /\ Init
    /\ [][NextCleanup]_vars
    /\ \A p \in Procs : WF_vars(SingleRequest(p))
    /\ WF_vars(TickSleeping)

(***************************************************************************)
(* Specification: tasks that may outlast the TTL of leader_key             *)
(***************************************************************************)
\* one second passes, whatever the age of the term, once the heartbeat
\* threads have taken their steps
TickTerm == HbPrompt /\ Elapse

\* each worker serves one request
NextTerm == (\E p \in Procs : SingleRequest(p)) \/ TickTerm

SpecTerm == Init /\ [][NextTerm]_vars

(***************************************************************************)
(* Specification: two overlapping requests served in one host              *)
(***************************************************************************)
\* p1 and p2 are two invocations of execute() in the server of hostA, each
\* with its own LeaderElection object; socket.gethostname() gives both the
\* same instance_id
SameHost == [p1 |-> "hostA", p2 |-> "hostA", p3 |-> "hostC"]

InitSameHost == InitProcs /\ workers = Procs /\ config = Params /\ host = SameHost

\* the election, and the leader branch up to the call of the task
Entry(p) ==
    \/ Election(p)
    \/ StartHeartbeatThread(p)

NextSameHost == (\E p \in Procs : Entry(p)) \/ Tick

SpecSameHost == InitSameHost /\ [][NextSameHost]_vars

(***************************************************************************)
(* Specification: configurations with undefined parameters                 *)
(***************************************************************************)
\* a POST /execute arrives at the aws handler (aws_impl/core/server.py):
\* sns_topic_arn is read and handed to SNSNotifier unchecked; the constructor
\* of LeaderElection reads the Redis endpoint and raises when it got None,
\* which the except of line 48 answers with 500.  elect_leader() follows.
AwsInvoke(p) ==
    /\ Alive(p)
    /\ pc[p] = "idle"
    /\ requests < MaxRequests
    /\ NewInvocation(p)
    /\ missing' = [missing EXCEPT ![p] = SSMRequired \ config]
    /\ IF SSMGetParameter(config, "/app/config/redis_endpoint") = None
       THEN /\ pc' = [pc EXCEPT ![p] = "idle"]
            /\ status' = [status EXCEPT ![p] =
                            ReplyError("Failed to fetch necessary configuration from SSM.")]
       ELSE /\ pc' = [pc EXCEPT ![p] = "elect_leader"]
            /\ status' = [status EXCEPT ![p] = NoStatus]
    /\ UNCHANGED <<redis, workers, sleepLeft, hbSleep, crashed, leaderAge, config,
                   host, protoRedis, protoPc, protoSleep, coord>>

\* any of the parameters may be undefined
InitConfig ==
    InitProcs /\ workers = Procs /\ config \in SUBSET Params /\ host = HostName

\* a worker serves its requests with the docker handler or with the aws
\* handler; elect_leader() and i_am_leader() are the same code in both
NextConfig ==
    \/ \E p \in Procs : Invoke(p)
    \/ \E p \in Procs : AwsInvoke(p)
    \/ \E p \in Procs : ElectLeaderGet(p)
    \/ \E p \in Procs : AcquireLeader(p)
    \/ \E p \in Procs : IAmLeader(p)
    \/ Tick

SpecConfig == InitConfig /\ [][NextConfig]_vars

(***************************************************************************)
(* The aws handler (aws_impl/core): execute(), cleanup(), send_heartbeats  *)
(***************************************************************************)
AwsGraceSleep == 3
AwsReplyTaskError == [code |-> 400, status |-> "error", body |-> "task error"]

\* threading.Thread(target=send_heartbeats, daemon=True).start(): the thread
\* begins with its one read of leader_key
AwsStartHeartbeat(p) ==
    /\ Alive(p)
    /\ pc[p] = "start_heartbeat"
    /\ hbpc' = [hbpc EXCEPT ![p] = "get_leader"]
    /\ pc' = [pc EXCEPT ![p] = "task"]
    /\ UNCHANGED <<redis, workers, role, current_leader, heartbeat, acquired,
                   released, taskResult, cleanups, status, requests, sleepLeft,
                   stop_event, heartbeat_thread, hbSleep, crashed, leaderAge,
                   afterLapse, absentFor, afterShutdown, config, missing, storeError,
                   host, notifyResult, protoRedis, protoPc, protoSleep, coord>>

\* time.sleep(3) is over: the while condition tests the local current_leader,
\* which was read once before the loop and was this process's id when the
\* body was entered, so the body runs again
AwsHbSleepDone(p) ==
    /\ Alive(p)
    /\ hbpc[p] = "sleep"
    /\ hbSleep[p] = 0
    /\ hbpc' = [hbpc EXCEPT ![p] = "set_heartbeat"]
    /\ UNCHANGED <<redis, workers, pc, role, current_leader, heartbeat, acquired,
                   released, taskResult, cleanups, status, requests, sleepLeft,
                   stop_event, heartbeat_thread, hbSleep, crashed, leaderAge,
                   afterLapse, absentFor, afterShutdown, config, missing, storeError,
                   host, notifyResult, protoRedis, protoPc, protoSleep, coord>>

\* application_logic.execute() returns: send_message("Leader notification")
AwsTaskReturn(p) ==
    /\ Alive(p)
    /\ pc[p] = "task"
    /\ taskResult' = [taskResult EXCEPT ![p] = "ok"]
    /\ pc' = [pc EXCEPT ![p] = "notify_leader"]
    /\ UNCHANGED <<redis, workers, role, current_leader, heartbeat, acquired,
                   released, cleanups, status, requests, sleepLeft, stop_event,
                   heartbeat_thread, hbpc, hbSleep, crashed, leaderAge, afterLapse,
                   absentFor, afterShutdown, config, missing, storeError,
                   host, notifyResult, protoRedis, protoPc, protoSleep, coord>>

\* application_logic.execute() raises: send_message("Execution Error")
AwsTaskRaise(p) ==
    /\ Alive(p)
    /\ pc[p] = "task"
    /\ taskResult' = [taskResult EXCEPT ![p] = "raised"]
    /\ pc' = [pc EXCEPT ![p] = "notify_error"]
    /\ UNCHANGED <<redis, workers, role, current_leader, heartbeat, acquired,
                   released, cleanups, status, requests, sleepLeft, stop_event,
                   heartbeat_thread, hbpc, hbSleep, crashed, leaderAge, afterLapse,
                   absentFor, afterShutdown, config, missing, storeError,
                   host, notifyResult, protoRedis, protoPc, protoSleep, coord>>

\* a send_message whose publish error escapes to the except of execute()
SendMessageRaises(p, delivered) ==
    /\ notifyResult' = [notifyResult EXCEPT ![p] = IF delivered THEN "sent" ELSE "failed"]
    /\ IF pc[p] = "notify_follower" \/ ~delivered
       THEN /\ pc' = [pc EXCEPT ![p] = "idle"]
            /\ status' = [status EXCEPT ![p] =
                            IF delivered THEN ReplySuccess(p) ELSE ReplyError("publish")]
       ELSE /\ pc' = [pc EXCEPT ![p] = "cleanup_release"]
            /\ UNCHANGED status

\* SNSNotifier.send_message: publish is delivered or raises; the except of
\* line 28 logs the error and send_message returns either way.  After the
\* leader's notifications the finally block calls cleanup(); after the
\* follower's notification execute() returns 200.
SendMessage(p, delivered) ==
    /\ notifyResult' = [notifyResult EXCEPT ![p] = IF delivered THEN "sent" ELSE "failed"]
    /\ IF pc[p] = "notify_follower"
       THEN /\ pc' = [pc EXCEPT ![p] = "idle"]
            /\ status' = [status EXCEPT ![p] = ReplySuccess(p)]
       ELSE /\ pc' = [pc EXCEPT ![p] = "cleanup_release"]
            /\ UNCHANGED status

\* sns_notifier.send_message(...) of lines 27, 29 and 42
AwsNotify(p) ==
    /\ Alive(p)
    /\ pc[p] \in {"notify_leader", "notify_error", "notify_follower"}
    /\ \E delivered \in BOOLEAN : SendMessage(p, delivered)
    /\ UNCHANGED <<redis, workers, role, current_leader, heartbeat, acquired,
                   released, taskResult, cleanups, requests, sleepLeft, stop_event,
                   heartbeat_thread, hbpc, hbSleep, crashed, leaderAge, afterLapse,
                   absentFor, afterShutdown, config, missing, storeError,
                   host, protoRedis, protoPc, protoSleep, coord>>

\* cleanup() begins with release_lock(leader_key, unique_id) (line 90)
AwsCleanupRelease(p) ==
    /\ Alive(p)
    /\ pc[p] = "cleanup_release"
    /\ redis' = ReleaseLock(redis, leader_key, unique_id(p))
    /\ released' = [released EXCEPT ![p] = ReleaseReply(redis, leader_key, unique_id(p))]
    /\ leaderAge' = IF redis'[leader_key].val = None THEN 0 ELSE leaderAge
    /\ pc' = [pc EXCEPT ![p] = "cleanup_release_again"]
    /\ UNCHANGED <<workers, role, current_leader, heartbeat, acquired, taskResult,
                   cleanups, status, requests, sleepLeft, stop_event,
                   heartbeat_thread, hbpc, hbSleep, crashed, afterLapse,
                   absentFor, afterShutdown, config, missing, storeError,
                   host, notifyResult, protoRedis, protoPc, protoSleep, coord>>

\* the same release_lock(leader_key, unique_id) once more (line 92)
AwsCleanupReleaseAgain(p) ==
    /\ Alive(p)
    /\ pc[p] = "cleanup_release_again"
    /\ redis' = ReleaseLock(redis, leader_key, unique_id(p))
    /\ leaderAge' = IF redis'[leader_key].val = None THEN 0 ELSE leaderAge
    /\ pc' = [pc EXCEPT ![p] = "cleanup_get_heartbeat"]
    /\ UNCHANGED <<workers, role, current_leader, heartbeat, acquired, released,
                   taskResult, cleanups, status, requests, sleepLeft, stop_event,
                   heartbeat_thread, hbpc, hbSleep, crashed, afterLapse,
                   absentFor, afterShutdown, config, missing, storeError,
                   host, notifyResult, protoRedis, protoPc, protoSleep, coord>>

\* where execute() goes on when a cleanup() call returns: the finally block of
\* a failed task returns the 400 of line 30; the finally block of a successful
\* task falls through to the cleanup() of line 37, which is followed by the
\* 200 of line 44
AwsCleanupReturns(p) ==
    /\ cleanups' = [cleanups EXCEPT ![p] = @ + 1]
    /\ IF cleanups[p] = 0
       THEN IF taskResult[p] = "raised"
            THEN /\ pc' = [pc EXCEPT ![p] = "idle"]
                 /\ status' = [status EXCEPT ![p] = AwsReplyTaskError]
            ELSE /\ pc' = [pc EXCEPT ![p] = "cleanup_release"]
                 /\ UNCHANGED status
       ELSE /\ pc' = [pc EXCEPT ![p] = "idle"]
            /\ status' = [status EXCEPT ![p] = ReplySuccess(p)]

\* if get_value(leader_key): (line 97); cleanup() ends here when it is absent
AwsCleanupGetLeader(p) ==
    /\ Alive(p)
    /\ pc[p] = "cleanup_get_leader"
    /\ IF GetValue(redis, leader_key) # None
       THEN /\ pc' = [pc EXCEPT ![p] = "cleanup_delete_leader"]
            /\ UNCHANGED <<cleanups, status>>
       ELSE AwsCleanupReturns(p)
    /\ UNCHANGED <<redis, workers, role, current_leader, heartbeat, acquired,
                   released, taskResult, requests, sleepLeft, stop_event,
                   heartbeat_thread, hbpc, hbSleep, crashed, leaderAge, afterLapse,
                   absentFor, afterShutdown, config, missing, storeError,
                   host, notifyResult, protoRedis, protoPc, protoSleep, coord>>

\*     delete(leader_key) (line 98), the last statement of cleanup()
AwsCleanupDeleteLeader(p) ==
    /\ Alive(p)
    /\ pc[p] = "cleanup_delete_leader"
    /\ redis' = Delete(redis, leader_key)
    /\ leaderAge' = IF redis'[leader_key].val = None THEN 0 ELSE leaderAge
    /\ AwsCleanupReturns(p)
    /\ UNCHANGED <<workers, role, current_leader, heartbeat, acquired, released,
                   taskResult, requests, sleepLeft, stop_event,
                   heartbeat_thread, hbpc, hbSleep, crashed, afterLapse,
                   absentFor, afterShutdown, config, missing, storeError,
                   host, notifyResult, protoRedis, protoPc, protoSleep, coord>>

\* where monitor_leader goes after reading the heartbeat: another
\* time.sleep(2) while the loop condition holds; otherwise it returns and
\* execute() sleeps 3 s (line 41)
AwsMonitorNext(p, hb) ==
    IF MonitorWaits(current_leader[p], hb)
    THEN /\ pc' = [pc EXCEPT ![p] = "monitor_sleep"]
         /\ sleepLeft' = [sleepLeft EXCEPT ![p] = PollInterval]
    ELSE /\ pc' = [pc EXCEPT ![p] = "grace_sleep"]
         /\ sleepLeft' = [sleepLeft EXCEPT ![p] = AwsGraceSleep]

\* heartbeat = get_value(heartbeat_key) before the loop (line 78)
AwsMonitorGetHeartbeat(p) ==
    /\ Alive(p)
    /\ pc[p] = "monitor_get_heartbeat"
    /\ heartbeat' = [heartbeat EXCEPT ![p] = GetValue(redis, heartbeat_key)]
    /\ AwsMonitorNext(p, GetValue(redis, heartbeat_key))
    /\ UNCHANGED <<redis, workers, role, current_leader, acquired, released,
                   taskResult, cleanups, status, requests, stop_event,
                   heartbeat_thread, hbpc, hbSleep, crashed, leaderAge, afterLapse,
                   absentFor, afterShutdown, config, missing, storeError,
                   host, notifyResult, protoRedis, protoPc, protoSleep, coord>>

\* time.sleep(2) is over: heartbeat = get_value(heartbeat_key) (line 83)
AwsMonitorPoll(p) ==
    /\ Alive(p)
    /\ pc[p] = "monitor_sleep"
    /\ sleepLeft[p] = 0
    /\ heartbeat' = [heartbeat EXCEPT ![p] = GetValue(redis, heartbeat_key)]
    /\ AwsMonitorNext(p, GetValue(redis, heartbeat_key))
    /\ UNCHANGED <<redis, workers, role, current_leader, acquired, released,
                   taskResult, cleanups, status, requests, stop_event,
                   heartbeat_thread, hbpc, hbSleep, crashed, leaderAge, afterLapse,
                   absentFor, afterShutdown, config, missing, storeError,
                   host, notifyResult, protoRedis, protoPc, protoSleep, coord>>

\* time.sleep(3) of line 41 is over: send_message("Follower Notification")
AwsGraceSleepDone(p) ==
    /\ Alive(p)
    /\ pc[p] = "grace_sleep"
    /\ sleepLeft[p] = 0
    /\ pc' = [pc EXCEPT ![p] = "notify_follower"]
    /\ UNCHANGED <<redis, workers, role, current_leader, heartbeat, acquired,
                   released, taskResult, cleanups, status, requests, sleepLeft,
                   stop_event, heartbeat_thread, hbpc, hbSleep, crashed, leaderAge,
                   afterLapse, absentFor, afterShutdown, config, missing, storeError,
                   host, notifyResult, protoRedis, protoPc, protoSleep, coord>>

\* the steps of a worker that serves its request with the aws handler;
\* elect_leader(), i_am_leader(), the reads of monitor_leader(), the deletion
\* of heartbeat_key in cleanup() and the body of the heartbeat loop are the
\* same code as in the docker variant
AwsStep(p) ==
    \/ AwsInvoke(p)
    \/ ElectLeaderGet(p)
    \/ AcquireLeader(p)
    \/ IAmLeader(p)
    \/ AwsStartHeartbeat(p)
    \/ AwsTaskReturn(p)
    \/ AwsTaskRaise(p)
    \/ AwsNotify(p)
    \/ AwsCleanupRelease(p)
    \/ AwsCleanupReleaseAgain(p)
    \/ CleanupGetHeartbeat(p)
    \/ CleanupDeleteHeartbeat(p)
    \/ AwsCleanupGetLeader(p)
    \/ AwsCleanupDeleteLeader(p)
    \/ MonitorGetLeader(p)
    \/ AwsMonitorGetHeartbeat(p)
    \/ AwsMonitorPoll(p)
    \/ AwsGraceSleepDone(p)

\* the steps of the daemon thread of a worker
AwsThread(p) ==
    \/ HbGetLeader(p)
    \/ HbSetValue(p)
    \/ AwsHbSleepDone(p)

\* each worker serves one request, so that no second coordinator is built in
\* a process whose daemon thread is still running
AwsRequest(p) == (status[p] = NoStatus /\ AwsStep(p)) \/ AwsThread(p)

NextAws ==
    \/ \E p \in Procs : AwsRequest(p)
    \/ Tick

SpecAws == Init /\ [][NextAws]_vars

\* one second passes once the daemon threads have taken their steps
TickAws == HbPrompt /\ Tick

NextAwsFair ==
    \/ \E p \in Procs : AwsRequest(p)
    \/ TickAws

\* every worker and every daemon thread keeps running, and time passes
SpecAwsFair ==
    /\ Init
    /\ [][NextAwsFair]_vars
    /\ \A p \in Procs : WF_vars(AwsRequest(p))
    /\ WF_vars(TickAws)

(***************************************************************************)
(* The prototype redis_locking.py: one run of __main__ per instance        *)
(***************************************************************************)
ProtoLeaderTTL == 10
ProtoHeartbeatTTL == 5
CsSleep == 5

\* a program lock that lasts two of the four sections
ShortLockTTL == CsSleep + CsSleep

ProgramLockTTL == 30

\* the state of the coordinators of LeaderElection, which the prototype
\* does not touch
electionVars ==
    <<redis, workers, pc, role, current_leader, heartbeat, acquired, released,
      taskResult, cleanups, status, requests, sleepLeft, stop_event,
      heartbeat_thread, hbpc, hbSleep, crashed, leaderAge, afterLapse,
      absentFor, afterShutdown, config, missing, storeError, host, notifyResult>>

Sections == {"cs1", "cs2", "cs3", "cs4"}

\* if acquire_leader(): SET leader instance_id NX EX 10; an instance that is
\* not answered True exits
ProtoAcquireLeader(p) ==
    /\ protoPc[p] = "start"
    /\ protoRedis' = AcquireLock(protoRedis, "leader", instance_id(p), ProtoLeaderTTL)
    /\ protoPc' = [protoPc EXCEPT ![p] =
                    IF AcquireReply(protoRedis, "leader") = "True" THEN "send_heartbeat"
                    ELSE "done"]
    /\ UNCHANGED <<protoSleep, coord, electionVars>>

\* send_heartbeat(): SET heartbeat:<instance_id> alive EX 5, once
ProtoSendHeartbeat(p) ==
    /\ protoPc[p] = "send_heartbeat"
    /\ protoRedis' = SetValue(protoRedis, ProtoHeartbeatKey(p), "alive", ProtoHeartbeatTTL)
    /\ protoPc' = [protoPc EXCEPT ![p] = "acquire_program_lock"]
    /\ UNCHANGED <<protoSleep, coord, electionVars>>

\* if acquire_program_lock(): SET program_lock instance_id NX EX 30; on True
\* the first time.sleep(5) begins, otherwise execute_program() returns
ProtoAcquireProgramLock(p) ==
    /\ protoPc[p] = "acquire_program_lock"
    /\ protoRedis' = AcquireLock(protoRedis, "program_lock", instance_id(p), ProgramLockTTL)
    /\ IF AcquireReply(protoRedis, "program_lock") = "True"
       THEN /\ protoPc' = [protoPc EXCEPT ![p] = "cs1"]
            /\ protoSleep' = [protoSleep EXCEPT ![p] = CsSleep]
       ELSE /\ protoPc' = [protoPc EXCEPT ![p] = "delete_leader"]
            /\ UNCHANGED protoSleep
    /\ UNCHANGED <<coord, electionVars>>

\* a time.sleep(5) is over: the next section begins, or the finally block
ProtoSection(p) ==
    /\ protoPc[p] \in Sections
    /\ protoSleep[p] = 0
    /\ protoPc' = [protoPc EXCEPT ![p] =
                    CASE @ = "cs1" -> "cs2"
                      [] @ = "cs2" -> "cs3"
                      [] @ = "cs3" -> "cs4"
                      [] OTHER -> "release"]
    /\ protoSleep' = [protoSleep EXCEPT ![p] = IF protoPc[p] = "cs4" THEN 0 ELSE CsSleep]
    /\ UNCHANGED <<protoRedis, coord, electionVars>>

\* release_program_lock(): the compare-and-delete script on program_lock
ProtoRelease(p) ==
    /\ protoPc[p] = "release"
    /\ protoRedis' = ReleaseLock(protoRedis, "program_lock", instance_id(p))
    /\ protoPc' = [protoPc EXCEPT ![p] = "delete_leader"]
    /\ UNCHANGED <<protoSleep, coord, electionVars>>

\* redis_client.delete(LEADER_KEY), whoever holds it
ProtoDeleteLeader(p) ==
    /\ protoPc[p] = "delete_leader"
    /\ protoRedis' = Delete(protoRedis, "leader")
    /\ protoPc' = [protoPc EXCEPT ![p] = "done"]
    /\ UNCHANGED <<protoSleep, coord, electionVars>>

\* Redis expiry in the prototype's keyspace
ProtoExpire(db) ==
    [k \in ProtoKeys |->
        IF db[k].val = None THEN Absent
        ELSE IF db[k].ttl <= 1 THEN Absent
        ELSE [db[k] EXCEPT !.ttl = db[k].ttl - 1]]

\* an instance between acquire_program_lock() and release_program_lock() has
\* a step to take: a sleep of it is over, or it is at the finally block
ProtoRunnable(p) ==
    \/ protoPc[p] \in Sections /\ protoSleep[p] = 0
    \/ protoPc[p] = "release"

\* one second passes.  The sections take their four sleeps and no more: an
\* instance inside them takes its steps before the next second
ProtoTick ==
    /\ \A p \in Procs : ~ProtoRunnable(p)
    /\ \E k \in ProtoKeys : protoRedis[k].val # None
    /\ protoRedis' = ProtoExpire(protoRedis)
    /\ protoSleep' = [p \in Procs |-> Dec(protoSleep[p])]
    /\ UNCHANGED <<protoPc, coord, electionVars>>

ProtoStep(p) ==
    \/ ProtoAcquireLeader(p)
    \/ ProtoSendHeartbeat(p)
    \/ ProtoAcquireProgramLock(p)
    \/ ProtoSection(p)
    \/ ProtoRelease(p)
    \/ ProtoDeleteLeader(p)

NextProto == (\E p \in Procs : ProtoStep(p)) \/ ProtoTick

SpecProto == InitElection /\ [][NextProto]_vars

(***************************************************************************)
(* The keys of coordinators built for arbitrary task ids                   *)
(***************************************************************************)
\* task ids a caller may pass to LeaderElection(task_id, config_manager)
TaskIds ==
    {"Api", "some_api_call", "job", "report", "heartbeat", "leader",
     "Api_leader", "job_leader", "heartbeat:Api", "heartbeat:job", "heartbeat:report"}

\* self.leader_key = f"{task_id}_leader"
LeaderKeyOf(t) == t \o "_leader"

\* self.heartbeat_key = f"heartbeat:{self.leader_key}"
HeartbeatKeyOf(t) == "heartbeat:" \o LeaderKeyOf(t)

\* LeaderElection(t, config_manager): the constructor derives the keys
Build(i, t) ==
    /\ coord' = [coord EXCEPT ![i] = [task |-> t,
                                      leader_key |-> LeaderKeyOf(t),
                                      heartbeat_key |-> HeartbeatKeyOf(t)]]
    /\ UNCHANGED <<protoRedis, protoPc, protoSleep, electionVars>>

NextKeys == \E i \in Slots, t \in TaskIds : Build(i, t)

SpecKeys == InitElection /\ [][NextKeys]_vars

(***************************************************************************)
(* Properties                                                              *)
(***************************************************************************)
Executing(p) == pc[p] = "task"

\* C1: for one task id, at every moment at most one process is executing the
\* Task Runner (application_logic.execute); the leader key never expires under
\* a running task because MaxTermAge < LockTTL.
C1_OneTaskRunner == Cardinality({p \in Procs : Executing(p)}) <= 1

\* C2: when the workers call elect_leader() concurrently while leader_key is
\* absent, never two of them observe i_am_leader() = true, and once all have
\* called i_am_leader() exactly one observed true and all others false.
Leaders == {p \in workers : role[p] = "leader"}
C2_ExactlyOneLeader ==
    /\ Cardinality(Leaders) <= 1
    /\ (\A p \in workers : role[p] # "undecided") =>
          /\ Cardinality(Leaders) = 1
          /\ \A p \in workers \ Leaders : role[p] = "follower"

\* all workers decided, at least two of them after racing through acquire_lock
C2_Witness ==
    /\ \A p \in workers : role[p] # "undecided"
    /\ Cardinality({p \in workers : acquired[p] # "none"}) >= 2

InCleanup(p) ==
    pc[p] \in {"cleanup_release", "cleanup_get_heartbeat", "cleanup_delete_heartbeat",
               "cleanup_get_leader", "cleanup_delete_leader", "stop_heartbeat",
               "join_heartbeat"}

\* C3: cleanup() never evicts another owner: a step of p's cleanup() taken
\* while leader_key holds another process's id leaves leader_key as it is.
C3_CleanupNeverEvicts ==
    [][\A p \in Procs :
          (/\ InCleanup(p)
           /\ pc'[p] # pc[p]
           /\ GetValue(redis, leader_key) \notin {None, unique_id(p)})
          => redis'[leader_key] = redis[leader_key]]_vars

\* C4: i_am_leader() called while leader_key is absent returns false and does
\* not raise.
C4_IAmLeaderToleratesAbsence ==
    [][\A p \in Procs :
          (/\ pc[p] = "i_am_leader"
           /\ pc'[p] # pc[p]
           /\ ~crashed'[p]
           /\ GetValue(redis, leader_key) = None)
          => role'[p] = "follower"]_vars

\* C5: every poll of monitor_leader() (the re-read after a 2 s sleep) taken
\* while leader_key or heartbeat_key is absent ends the wait:
\* monitor_leader() returns.
C5_MonitorReturnsOnAbsence ==
    [][\A p \in Procs :
          (/\ pc[p] = "monitor_sleep"
           /\ sleepLeft[p] = 0
           /\ sleepLeft'[p] > 0
           /\ \/ GetValue(redis, leader_key) = None
              \/ GetValue(redis, heartbeat_key) = None)
          => pc'[p] = "grace_sleep"]_vars

\* C6: monitor_leader() of a follower does not return while the elected leader
\* holds leader_key and is executing the task.
C6_FollowerWaitsForLeader ==
    [][\A p \in Procs :
          (pc[p] \in {"monitor_get_heartbeat", "monitor_sleep"} /\ pc'[p] = "grace_sleep")
          => ~\E l \in Procs \ {p} :
                 /\ Executing(l)
                 /\ ~crashed[l]
                 /\ GetValue(redis, leader_key) = unique_id(l)]_vars

\* C7: when a cleanup() of the leader has returned and no other process has
\* sent a request, leader_key and heartbeat_key are both absent.
C7_KeysAbsentAfterCleanup ==
    \A p \in Procs :
        (/\ requests = 1
         /\ role[p] = "leader"
         /\ cleanups[p] >= 1
         /\ pc[p] \in {"cleanup_release", "idle"})
        => /\ GetValue(redis, leader_key) = None
           /\ GetValue(redis, heartbeat_key) = None

\* C8: release_lock(key, v) deletes the key in one step when its value is v,
\* and leaves the whole keyspace unchanged when the value differs or the key
\* is absent.
C8_ReleaseCompareAndDelete ==
    [][\A p \in Procs :
          (pc[p] = "cleanup_release" /\ pc'[p] = "cleanup_get_heartbeat")
          => IF GetValue(redis, leader_key) = unique_id(p)
             THEN redis' = [redis EXCEPT ![leader_key] = Absent]
             ELSE redis' = redis]_vars

\* a former leader has run release_lock, which deleted nothing, and the key
\* holds the id of the process that took over
C8_Witness ==
    \E p \in Procs : \E q \in Procs \ {p} :
        /\ pc[p] = "cleanup_get_heartbeat"
        /\ role[p] = "leader"
        /\ cleanups[p] = 0
        /\ released[p] = 0
        /\ GetValue(redis, leader_key) = unique_id(q)

\* C9: acquire_lock creates the key with the lock TTL and replies True only
\* when the key is absent; on an existing key it changes neither the value nor
\* the remaining TTL and replies None; of the concurrent calls on an absent
\* key exactly one is answered True.
C9_AcquireSetIfAbsent ==
    /\ [][\A p \in Procs :
            (pc[p] = "acquire_leader" /\ pc'[p] = "i_am_leader")
            => IF GetValue(redis, leader_key) = None
               THEN /\ redis' = [redis EXCEPT ![leader_key] =
                                    [val |-> unique_id(p), ttl |-> LockTTL]]
                    /\ acquired'[p] = "True"
               ELSE /\ redis' = redis
                    /\ acquired'[p] = None]_vars
    /\ [](Cardinality({p \in Procs : acquired[p] = "True"}) <= 1)
    /\ []((\E p \in Procs : acquired[p] # "none")
            => Cardinality({p \in Procs : acquired[p] = "True"}) = 1)

\* one call created the key, another was refused later, after time had passed
C9_Witness ==
    \E p \in Procs : \E q \in Procs \ {p} :
        /\ acquired[p] = "True"
        /\ acquired[q] = None
        /\ redis[leader_key].ttl < LockTTL

\* C10: a crashed leader's key is gone no later than LockTTL seconds after its
\* acquisition, and an elect_leader() begun by another process after the key
\* lapsed acquires the key (it, or a process racing with it) and makes the
\* process that acquired it leader.
C10_TTLSafetyNet ==
    /\ GetValue(redis, leader_key) # None => leaderAge < LockTTL
    /\ \A q \in Procs :
          afterLapse[q] /\ acquired[q] # "none" =>
              \E r \in Procs : afterLapse[r] /\ acquired[r] = "True"
    /\ \A q \in Procs :
          afterLapse[q] /\ acquired[q] = "True" /\ role[q] # "undecided"
              => role[q] = "leader"

\* C11: while a leader's heartbeat loop is running (leader_key holds its id,
\* stop not requested), from its first heartbeat write on, heartbeat_key is
\* never absent for more than HeartbeatTTL + HeartbeatSleep seconds, also when
\* another process deletes heartbeat_key in between.
C11_HeartbeatLiveness ==
    \A p \in Procs : LoopRunning(p) => absentFor[p] <= MaxAbsence

\* the loop of p is running and heartbeat_key has been absent for a whole
\* loop sleep after a follower's cleanup() deleted it
C11_Witness ==
    \E p \in Procs : \E q \in Procs \ {p} :
        /\ LoopRunning(p)
        /\ absentFor[p] = HeartbeatSleep
        /\ role[q] = "follower"
        /\ pc[q] \in {"cleanup_get_leader", "cleanup_delete_leader", "stop_heartbeat"}

InMonitor(p) == pc[p] \in {"monitor_leader", "monitor_get_heartbeat", "monitor_sleep"}

\* a heartbeat thread has passed its leadership check and is about to write
PendingWrite == \E q \in Procs : Alive(q) /\ hbpc[q] = "set_heartbeat"

C13_CleanupIdempotent ==
    /\ [][\A p \in Procs :
            (/\ requests = 1
             /\ InCleanup(p)
             /\ cleanups[p] >= 1
             /\ pc'[p] # pc[p])
            => redis' = redis]_vars
    /\ [](\A p \in Procs :
            (role[p] = "follower" /\ cleanups[p] >= 1)
            => GetValue(redis, leader_key) # unique_id(p))

\* the invocation of p has returned
Returned(p) == pc[p] = "idle" /\ status[p] # NoStatus

\* C14: every invocation that took the leader branch has run cleanup() when it
\* returns, whether the task returned or raised, and no step leaves the task
\* for anything but cleanup().
C14_CleanupOnEveryExit ==
    /\ [](\A p \in Procs :
            (Returned(p) /\ role[p] = "leader") => cleanups[p] >= 1)
    /\ [][\A p \in Procs :
            (Executing(p) /\ pc'[p] # pc[p] /\ ~crashed'[p])
            => pc'[p] = "cleanup_release"]_vars

\* a leader whose task raised has answered 500 after its cleanup()
C14_Witness ==
    \E p \in Procs :
        /\ Returned(p)
        /\ role[p] = "leader"
        /\ taskResult[p] = "raised"
        /\ status[p] = ReplyTaskError
        /\ cleanups[p] = 1

\* C15: the task is entered only by a process whose i_am_leader() returned
\* true in this invocation and that has not run the task in this invocation;
\* a process that took the follower branch never runs it, also when leader_key
\* becomes absent while it waits.
C15_TaskOnlyByLeaderOnce ==
    /\ [][\A p \in Procs :
            (~Executing(p) /\ pc'[p] = "task")
            => role[p] = "leader" /\ taskResult[p] = "none"]_vars
    /\ [](\A p \in Procs :
            role[p] = "follower" => ~Executing(p) /\ taskResult[p] = "none")

\* a follower has come back from the loop of monitor_leader() and leader_key
\* is absent
C15_Witness ==
    \E p \in Procs :
        /\ role[p] = "follower"
        /\ pc[p] = "grace_sleep"
        /\ current_leader[p] # None
        /\ GetValue(redis, leader_key) = None

C17_ReElection ==
    \A b \in Procs :
        (/\ afterShutdown[b] = "yes"
         /\ role[b] # "undecided"
         /\ ShutDownLeader(b) # {})
        => acquired[b] = "True" /\ role[b] = "leader"

\* the outcomes of a returned invocation: an error raised by elect_leader,
\* i_am_leader, monitor_leader or cleanup; the leader's task failed; a
\* follower completed normally
InfraFailed(p) == Returned(p) /\ (storeError[p] # "none" \/ role[p] = "raise")
TaskFailed(p) == Returned(p) /\ ~InfraFailed(p) /\ taskResult[p] = "raised"
FollowerDone(p) == Returned(p) /\ ~InfraFailed(p) /\ role[p] = "follower"

\* what the caller can tell outcomes apart by: status code and status field
Signal(p) == <<status[p].code, status[p].status>>

\* C18: the replies of two invocations with different outcomes (task failed,
\* election or store failed, follower completed) differ in status code or in
\* status field.
C18_OutcomesDistinguished ==
    \A p \in Procs : \A q \in Procs :
        /\ (TaskFailed(p) /\ InfraFailed(q)) => Signal(p) # Signal(q)
        /\ (TaskFailed(p) /\ FollowerDone(q)) => Signal(p) # Signal(q)
        /\ (InfraFailed(p) /\ FollowerDone(q)) => Signal(p) # Signal(q)

\* C19: an invocation in which a store call of elect_leader() or of
\* monitor_leader() raised has ended with an error reply: it is not in
\* monitor_leader() any more, it has not run the task, its role is what
\* i_am_leader() had returned before (none for elect_leader), and its reply
\* is not a success.
C19_StoreFailurePropagates ==
    \A p \in Procs :
        storeError[p] \in {"elect_leader", "monitor_leader"} =>
            /\ Returned(p)
            /\ status[p].code = 500 /\ status[p].status = "error"
            /\ taskResult[p] = "none"
            /\ cleanups[p] = 0
            /\ role[p] = IF storeError[p] = "elect_leader" THEN "undecided" ELSE "follower"

\* a follower's store call failed in the loop of monitor_leader() while the
\* leader was running the task
C19_Witness ==
    \E p \in Procs : \E q \in Procs \ {p} :
        /\ Executing(p)
        /\ storeError[q] = "monitor_leader"
        /\ heartbeat[q] = "alive"

\* C20: an invocation that found a required parameter undefined performs no
\* store operation (it never gets past the start of elect_leader()) and, once
\* returned, has answered with an error.
C20_MissingConfigAborts ==
    \A p \in Procs :
        missing[p] # {} =>
            /\ pc[p] \in {"idle", "elect_leader"}
            /\ Returned(p) => status[p].code = 500


Notifying(p) == pc[p] \in {"notify_leader", "notify_error", "notify_follower"}

\* C21: a send_message that fails changes nothing but the log: the step after
\* it goes where the step after a delivered message goes (cleanup() for the
\* leader, the 200 reply for the follower) without touching the store, and an
\* invocation that has returned has run the cleanups and carries the status of
\* its branch (leader 200 after two cleanups, failed task 400 after one,
\* follower 200 after none) whether its message was delivered or not.
C21_NotificationNeverEscalated ==
    /\ [][\A p \in Procs :
            (Notifying(p) /\ pc'[p] # pc[p]) =>
                /\ redis' = redis
                /\ pc'[p] = IF pc[p] = "notify_follower" THEN "idle" ELSE "cleanup_release"
                /\ status'[p] = IF pc[p] = "notify_follower" THEN ReplySuccess(p)
                                ELSE status[p]]_vars
    /\ [](\A p \in Procs :
            (Returned(p) /\ notifyResult[p] # "none") =>
                CASE role[p] = "follower" ->
                        status[p].code = 200 /\ cleanups[p] = 0
                  [] role[p] = "leader" /\ taskResult[p] = "ok" ->
                        status[p].code = 200 /\ cleanups[p] = 2
                  [] role[p] = "leader" /\ taskResult[p] = "raised" ->
                        status[p].code = 400 /\ cleanups[p] = 1
                  [] OTHER -> FALSE)

\* a leader whose notification failed has returned 200 after both cleanups,
\* and a follower whose notification failed has returned 200
C21_Witness ==
    \E p, q \in Procs :
        /\ Returned(p) /\ role[p] = "leader" /\ notifyResult[p] = "failed"
        /\ status[p].code = 200 /\ cleanups[p] = 2
        /\ Returned(q) /\ role[q] = "follower" /\ notifyResult[q] = "failed"
        /\ status[q].code = 200

\* p's heartbeat thread writes heartbeat_key in this step
HbWrites(p) == hbpc[p] = "set_heartbeat" /\ hbpc'[p] = "sleep"

\* heartbeat_key is created, or its TTL raised, in this step
HeartbeatWritten ==
    /\ redis'[heartbeat_key].val # None
    /\ redis'[heartbeat_key] # redis[heartbeat_key]
    /\ redis'[heartbeat_key].ttl >= redis[heartbeat_key].ttl

\* C22: in the docker variant every iteration of send_heartbeats reads
\* leader_key: the write of heartbeat_key is reached only from a read that
\* returned this process's id, nothing else writes heartbeat_key, after the
\* sleep the loop goes back to its condition and from there to the next read;
\* a read that returns nothing or another id ends the thread without a write
\* and without an effect on the main thread.
C22_HeartbeatLoopRereads ==
    [][/\ \A p \in Procs :
            /\ (hbpc'[p] = "set_heartbeat" /\ hbpc[p] # "set_heartbeat") =>
                    /\ hbpc[p] = "get_leader"
                    /\ GetValue(redis, leader_key) = unique_id(p)
            /\ (hbpc[p] = "get_leader" /\ hbpc'[p] # "get_leader"
                    /\ GetValue(redis, leader_key) # unique_id(p)) =>
                    /\ hbpc'[p] = "exited"
                    /\ redis' = redis
                    /\ pc' = pc /\ status' = status
            /\ (hbpc[p] = "sleep" /\ hbpc'[p] # "sleep") => hbpc'[p] = "loop"
            /\ (hbpc[p] = "loop" /\ hbpc'[p] # "loop") =>
                    hbpc'[p] \in {"get_leader", "exited"}
       /\ HeartbeatWritten => \E p \in Procs : HbWrites(p)]_vars

\* a heartbeat thread has ended on its own, its leader_key read having
\* returned nothing or another id, while its process is still running the task
C22_Witness ==
    \E p \in Procs :
        /\ Executing(p)
        /\ hbpc[p] = "exited"
        /\ ~stop_event[p]
        /\ GetValue(redis, leader_key) # unique_id(p)

\* stop_heartbeat_thread() has returned in this invocation of p
Stopped(p) == heartbeat_thread[p] /\ cleanups[p] >= 1

\* C24: stop_heartbeat_thread() returns only when the heartbeat thread has
\* exited; an exited thread takes no further step, so every later write of
\* heartbeat_key is by a thread of a process whose stop has not returned, and
\* the key never has more than HeartbeatTTL seconds to live.
C24_StopWaitsForThread ==
    /\ [](\A p \in Procs : Stopped(p) => hbpc[p] = "exited")
    /\ [](redis[heartbeat_key].ttl <= HeartbeatTTL)
    /\ [][/\ \A p \in Procs : hbpc[p] = "exited" => hbpc'[p] \in {"exited", "none"}
          /\ HeartbeatWritten => \E p \in Procs : HbWrites(p) /\ ~Stopped(p)]_vars

\* stop_heartbeat_thread() has returned while a heartbeat its thread wrote late
\* is still in the store
C24_Witness ==
    \E p \in Procs :
        /\ Stopped(p)
        /\ hbpc[p] = "exited"
        /\ GetValue(redis, heartbeat_key) = "alive"
        /\ GetValue(redis, leader_key) = None

\* C25: once stop_event is set the loop starts no new iteration: from the loop
\* condition the thread exits, no read of leader_key begins, the only write
\* is the one of the iteration whose read was already done, and its sleep is
\* followed by the loop condition.
C25_PromptCancellation ==
    [][\A p \in Procs :
        stop_event[p] =>
            /\ (hbpc[p] = "loop" /\ hbpc'[p] # "loop") => hbpc'[p] = "exited"
            /\ hbpc'[p] = "get_leader" => hbpc[p] = "get_leader"
            /\ (hbpc'[p] = "set_heartbeat" /\ hbpc[p] # "set_heartbeat") =>
                    hbpc[p] = "get_leader"
            /\ (hbpc[p] = "sleep" /\ hbpc'[p] # "sleep") =>
                    hbSleep[p] = 0 /\ hbpc'[p] = "loop"]_vars

\* stop_event is set, the main thread waits in join(), and the heartbeat
\* thread, past the stop check and the leadership check, is about to write
C25_Witness ==
    \E p \in Procs :
        /\ stop_event[p]
        /\ pc[p] = "join_heartbeat"
        /\ hbpc[p] = "set_heartbeat"

\* p's heartbeat thread is running
HbAlive(p) == Alive(p) /\ hbpc[p] \in {"loop", "get_leader", "set_heartbeat", "sleep"}

\* C23: in the aws variant a heartbeat thread whose process no longer holds
\* leader_key eventually terminates, and every follower in monitor_leader()
\* eventually returns.
C23_AwsHeartbeatLoopEnds ==
    /\ \A p \in Procs :
        (HbAlive(p) /\ GetValue(redis, leader_key) # unique_id(p)) ~> ~HbAlive(p)
    /\ \A q \in Procs : InMonitor(q) ~> ~InMonitor(q)

\* C26: every call of cleanup() eventually returns: the first and the second
\* call of a leader, whose join waits for the heartbeat thread to end, and the
\* call of a follower, which never started a thread.
C26_CleanupReturns ==
    \A p \in Procs :
        /\ (InCleanup(p) /\ cleanups[p] = 0) ~> (cleanups[p] = 1)
        /\ (InCleanup(p) /\ cleanups[p] = 1) ~> (cleanups[p] = 2)

\* a leader has returned from both cleanup() calls, and a follower, which
\* never started a heartbeat thread, from its one call
C26_Witness ==
    \E p, q \in Procs :
        /\ Returned(p) /\ role[p] = "leader" /\ heartbeat_thread[p] /\ cleanups[p] = 2
        /\ Returned(q) /\ role[q] = "follower" /\ ~heartbeat_thread[q] /\ cleanups[q] = 1

C28_SameHostOneLeader ==
    \A p, q \in Procs :
        (p # q /\ Alive(p) /\ Alive(q) /\ host[p] = host[q]) =>
            ~(/\ role[p] = "leader" /\ Executing(p)
              /\ role[q] = "leader" /\ Executing(q))

InSections(p) == protoPc[p] \in Sections

\* C29: in the prototype at most one instance is inside the critical
\* sections, and an instance inside them holds program_lock.
C29_PrototypeMutex ==
    /\ Cardinality({p \in Procs : InSections(p)}) <= 1
    /\ \A p \in Procs :
        InSections(p) => GetValue(protoRedis, "program_lock") = instance_id(p)

\* an instance is inside the sections after its leader key expired; another
\* instance became leader meanwhile and was refused the program lock, and a
\* third is leader now
C29_Witness ==
    \E p, q, r \in Procs :
        /\ InSections(p)
        /\ protoPc[q] = "done"
        /\ protoPc[r] = "acquire_program_lock"
        /\ GetValue(protoRedis, "leader") = instance_id(r)

\* the keys coordinator i reads and writes
KeysOf(i) == {coord[i].leader_key, coord[i].heartbeat_key}

\* C30: two coordinators built for different task ids have no key in common.
C30_KeySetsDisjoint ==
    \A i, j \in Slots :
        (/\ coord[i] # Unbuilt
         /\ coord[j] # Unbuilt
         /\ coord[i].task # coord[j].task) =>
            KeysOf(i) \cap KeysOf(j) = {}
====
